---- MODULE Spec2Model ----
(***************************************************************************)
(* Model of json_to_html_converter.py: the conversion of a system report   *)
(* (a JSON mapping of categories to property mappings) into one HTML page. *)
(*                                                                         *)
(* Text is modelled as a sequence of one-character strings, so that the    *)
(* replacements, the trimming and the formatting are computed character by *)
(* character as Python's str methods compute them.  The two emoji of the   *)
(* status badges are single elements named by their code point.            *)
(***************************************************************************)
EXTENDS Integers, Sequences, FiniteSets, TLC

VARIABLES
    pc,           \* position of the run being modelled
    category,     \* format_property_value: its category argument
    value,        \* format_property_value: its value argument
    formatted,    \* format_property_value: its return value
    rawKey,       \* generate_sections: a property's raw key
    cleanKey,     \* generate_sections: clean_key derived from rawKey
    cleanKey2,    \* clean_key derived from cleanKey (a second derivation)
    data,         \* the decoded record: categories in order, each with its properties in order
    summary,      \* generate_summary_section: its return value
    sections,     \* generate_sections: its return value
    mode,         \* how the run started: "cli", "interactive", or "call" (convert_json_to_html called directly)
    source,       \* what is at the source path
    dest,         \* the destination file: "old" (untouched), "truncated" or "written"
    sourceReads,  \* how many times the source was opened
    destOpens,    \* how many times the destination was opened for writing
    html,         \* html_content
    result,       \* what convert_json_to_html returned: "unset", "None" or "path"
    exitCode      \* the exit status of the process, -1 while it runs

formatVars == <<category, value, formatted>>
keyVars == <<rawKey, cleanKey, cleanKey2>>
renderVars == <<data, summary, sections>>
mainVars == <<mode, source, dest, sourceReads, destOpens, html, result, exitCode>>
vars == <<pc, formatVars, keyVars, renderVars, mainVars>>

(***************************************************************************)
(* Bounds of the model.                                                    *)
(***************************************************************************)
MaxValueLen == 3
MaxKeyLen == 3
MaxInt == 2

(***************************************************************************)
(* Python values a JSON property can hold: str, int, bool.                 *)
(***************************************************************************)
StrVal(s) == [tag |-> "str", s |-> s, n |-> 0]
IntVal(n) == [tag |-> "int", s |-> <<>>, n |-> n]
BoolVal(b) == [tag |-> "bool", s |-> <<>>, n |-> IF b THEN 1 ELSE 0]

\* The strings of length at most n over the characters of alphabet.
StringsUpTo(alphabet, n) == UNION {[1..k -> alphabet] : k \in 0..n}

(***************************************************************************)
(* Python's str methods, on sequences of characters.                       *)
(***************************************************************************)
\* s.replace(old, new) for a one-character old.
RECURSIVE Replace(_, _, _)
Replace(s, old, new) ==
    IF s = <<>> THEN <<>>
    ELSE (IF Head(s) = old THEN new ELSE <<Head(s)>>) \o Replace(Tail(s), old, new)

\* The characters str.strip() removes, among those the model uses.
Whitespace == {" ", "\t", "\n"}

RECURSIVE LStrip(_)
LStrip(s) ==
    IF s # <<>> /\ Head(s) \in Whitespace THEN LStrip(Tail(s)) ELSE s

RECURSIVE RStrip(_)
RStrip(s) ==
    IF s # <<>> /\ s[Len(s)] \in Whitespace THEN RStrip(SubSeq(s, 1, Len(s) - 1)) ELSE s

\* A trim that removes one whitespace character at most from each end.
StripOnce(s) ==
    LET l == IF s # <<>> /\ Head(s) \in Whitespace THEN Tail(s) ELSE s
    IN  IF l # <<>> /\ l[Len(l)] \in Whitespace THEN SubSeq(l, 1, Len(l) - 1) ELSE l

\* s.strip()
Strip(s) == RStrip(LStrip(s))

\* s.split(sep)[0] for a one-character sep: the text before the first sep.
RECURSIVE SplitFirst(_, _)
SplitFirst(s, sep) ==
    IF s = <<>> \/ Head(s) = sep THEN <<>>
    ELSE <<Head(s)>> \o SplitFirst(Tail(s), sep)

DigitChars == <<"0", "1", "2", "3", "4", "5", "6", "7", "8", "9">>

\* str(n) for an int n >= 0.
RECURSIVE IntText(_)
IntText(n) ==
    IF n < 10 THEN <<DigitChars[n + 1]>>
    ELSE IntText(n \div 10) \o <<DigitChars[(n % 10) + 1]>>

TrueText == <<"T", "r", "u", "e">>
FalseText == <<"F", "a", "l", "s", "e">>

\* str(value), which is also what an f-string's {value} renders.
PyStr(v) ==
    CASE v.tag = "str" -> v.s
      [] v.tag = "int" -> IntText(v.n)
      [] v.tag = "bool" -> IF v.n = 1 THEN TrueText ELSE FalseText

RunningText == <<"R", "u", "n", "n", "i", "n", "g">>
StoppedText == <<"S", "t", "o", "p", "p", "e", "d">>

\* value == 'Running': only the str 'Running' equals it.
IsRunning(v) == v.tag = "str" /\ v.s = RunningText

(***************************************************************************)
(* format_property_value                                                   *)
(***************************************************************************)
RunningOpen == <<"<", "s", "p", "a", "n", " ", "c", "l", "a", "s", "s", "=", "\"",
                 "s", "t", "a", "t", "u", "s", "-", "r", "u", "n", "n", "i", "n", "g",
                 "\"", ">", "U+2705", " ">>
StoppedOpen == <<"<", "s", "p", "a", "n", " ", "c", "l", "a", "s", "s", "=", "\"",
                 "s", "t", "a", "t", "u", "s", "-", "s", "t", "o", "p", "p", "e", "d",
                 "\"", ">", "U+274C", " ">>
SpanClose == <<"<", "/", "s", "p", "a", "n", ">">>
AmpEntity == <<"&", "a", "m", "p", ";">>
LtEntity == <<"&", "l", "t", ";">>
GtEntity == <<"&", "g", "t", ";">>

\* The same replacements with & escaped last: the & of &lt; and &gt; is escaped again.
EscapeHtmlAmpLast(s) == Replace(Replace(Replace(s, "<", LtEntity), ">", GtEntity), "&", AmpEntity)

\* value.replace('&', '&amp;').replace('<', '&lt;').replace('>', '&gt;')
EscapeHtml(s) == Replace(Replace(Replace(s, "&", AmpEntity), "<", LtEntity), ">", GtEntity)

\* format_property_value with the category compared case-insensitively.
FormatAnyCase(v, cat, key) ==
    IF cat \in {"Services", "services", "SERVICES"} THEN
        IF IsRunning(v) THEN RunningOpen \o PyStr(v) \o SpanClose
        ELSE StoppedOpen \o PyStr(v) \o SpanClose
    ELSE IF v.tag = "str" THEN EscapeHtml(v.s)
    ELSE PyStr(v)

format_property_value(v, cat, key) ==
    IF cat = "Services" THEN
        IF IsRunning(v) THEN RunningOpen \o PyStr(v) \o SpanClose
        ELSE StoppedOpen \o PyStr(v) \o SpanClose
    ELSE IF v.tag = "str" THEN EscapeHtml(v.s)
    ELSE PyStr(v)

(***************************************************************************)
(* The display key of a property (generate_sections, clean_key).           *)
(***************************************************************************)
\* key.replace('1', '').replace('2', '').replace('3', '').replace('4', '').replace('5', '')
RemoveDigits1to5(key) ==
    Replace(Replace(Replace(Replace(Replace(key, "1", <<>>), "2", <<>>), "3", <<>>), "4", <<>>), "5", <<>>)

\* The derivation with a trim that removes one character at most from each end.
CleanKeyStripOnce(key) == StripOnce(Replace(RemoveDigits1to5(key), "_", <<" ">>))

\* A derivation that strips the digits and underscores at the end of the key only.
RECURSIVE CleanKeyTrailingOnly(_)
CleanKeyTrailingOnly(key) ==
    IF key # <<>> /\ key[Len(key)] \in {"0", "1", "2", "3", "4", "5", "6", "7", "8", "9", "_"}
    THEN CleanKeyTrailingOnly(SubSeq(key, 1, Len(key) - 1))
    ELSE key

\* clean_key.replace('_', ' ').strip() of the key without its 1..5
CleanKey(key) == Strip(Replace(RemoveDigits1to5(key), "_", <<" ">>))

(***************************************************************************)
(* The record.  A Python dict keeps insertion order, so a mapping is a     *)
(* sequence of <<key, value>> pairs with distinct keys: the record is a    *)
(* sequence of <<category name, property mapping>>, a property mapping a   *)
(* sequence of <<property key, value>>.                                    *)
(***************************************************************************)
\* key in mapping
HasKey(m, k) == \E i \in 1..Len(m) : m[i][1] = k

\* mapping[key], for a key of the mapping
Lookup(m, k) == m[CHOOSE i \in 1..Len(m) : m[i][1] = k][2]

ComputerName == <<"C", "o", "m", "p", "u", "t", "e", "r", "N", "a", "m", "e">>
OSVersion == <<"O", "S", "V", "e", "r", "s", "i", "o", "n">>
TotalRAM == <<"T", "o", "t", "a", "l", "R", "A", "M">>
Processor1 == <<"P", "r", "o", "c", "e", "s", "s", "o", "r", "1">>

(***************************************************************************)
(* generate_summary_section.  Its result is the sequence of the markup's   *)
(* elements: empty for the empty string, else the opening of the summary   *)
(* block, one element per summary item, and the closing.  The probes run   *)
(* inside one try block: an exception raised by a probe ends the block,    *)
(* and the items appended so far are kept.                                 *)
(***************************************************************************)
SummaryItem(label, text) == [tok |-> "summary-item", label |-> label, text |-> text]
SummaryOpen == [tok |-> "summary-open", label |-> "System Overview", text |-> <<>>]
SummaryClose == [tok |-> "summary-close", label |-> "", text |-> <<>>]

\* summary_items.append(item), unless an exception has ended the try block
Append1(acc, item) == IF acc.raised THEN acc ELSE [acc EXCEPT !.items = Append(@, item)]

\* if 'System' in data: the ComputerName and OSVersion probes
ProbeSystem(d, acc) ==
    IF acc.raised \/ ~HasKey(d, "System") THEN acc
    ELSE LET sys == Lookup(d, "System")
             a1 == IF HasKey(sys, ComputerName)
                   THEN Append1(acc, SummaryItem("Computer", PyStr(Lookup(sys, ComputerName))))
                   ELSE acc
         IN  IF HasKey(sys, OSVersion)
             THEN Append1(a1, SummaryItem("Operating System", PyStr(Lookup(sys, OSVersion))))
             ELSE a1

\* if 'Memory' in data: the TotalRAM probe
ProbeMemory(d, acc) ==
    IF acc.raised \/ ~HasKey(d, "Memory") THEN acc
    ELSE LET mem == Lookup(d, "Memory")
         IN  IF HasKey(mem, TotalRAM)
             THEN Append1(acc, SummaryItem("Total RAM", PyStr(Lookup(mem, TotalRAM))))
             ELSE acc

\* if 'CPU' in data: the Processor1 probe.  .split exists on a str only: any
\* other value raises AttributeError, which ends the try block.
ProbeCpu(d, acc) ==
    IF acc.raised \/ ~HasKey(d, "CPU") THEN acc
    ELSE LET cpu == Lookup(d, "CPU")
         IN  IF ~HasKey(cpu, Processor1) THEN acc
             ELSE IF Lookup(cpu, Processor1).tag # "str" THEN [acc EXCEPT !.raised = TRUE]
             ELSE Append1(acc, SummaryItem("Processor",
                                   Strip(SplitFirst(Lookup(cpu, Processor1).s, "("))))

\* sum(1 for service in data['Services'].values() if service == 'Running')
RunningServices(services) == Cardinality({i \in 1..Len(services) : IsRunning(services[i][2])})

\* The Services probe keyed on any spelling of the category name.
ProbeServicesAnyCase(d, acc) ==
    IF acc.raised \/ ~(HasKey(d, "Services") \/ HasKey(d, "services")) THEN acc
    ELSE LET services == IF HasKey(d, "Services") THEN Lookup(d, "Services")
                         ELSE Lookup(d, "services")
         IN  Append1(acc, SummaryItem("Services Status",
                 IntText(RunningServices(services)) \o <<"/">> \o IntText(Len(services))
                     \o <<" ">> \o RunningText))

\* if 'Services' in data: the count of running services
ProbeServices(d, acc) ==
    IF acc.raised \/ ~HasKey(d, "Services") THEN acc
    ELSE LET services == Lookup(d, "Services")
         IN  Append1(acc, SummaryItem("Services Status",
                 IntText(RunningServices(services)) \o <<"/">> \o IntText(Len(services))
                     \o <<" ">> \o RunningText))

\* The try block: the probes in their order, from an empty list.
SummaryItems(d) ==
    ProbeServices(d, ProbeCpu(d, ProbeMemory(d, ProbeSystem(d,
        [items |-> <<>>, raised |-> FALSE])))).items

generate_summary_section(d) ==
    LET summary_items == SummaryItems(d)
    IN  IF summary_items # <<>>
        THEN <<SummaryOpen>> \o summary_items \o <<SummaryClose>>
        ELSE <<>>

(***************************************************************************)
(* generate_sections.  Its result is the sequence of the markup's          *)
(* elements, in the order of the joined string: per category the opening   *)
(* of its block (icon and name), one element per property, the closing.    *)
(***************************************************************************)
\* section_icons.get(category, fallback), the icons named by their code point
SectionIcon(cat) ==
    CASE cat = "System" -> "U+1F5A5"
      [] cat = "Network" -> "U+1F310"
      [] cat = "CPU" -> "U+26A1"
      [] cat = "Memory" -> "U+1F9E0"
      [] cat = "Disk" -> "U+1F4BE"
      [] cat = "Graphics" -> "U+1F3AE"
      [] cat = "Software" -> "U+1F4E6"
      [] cat = "Services" -> "U+2699"
      [] OTHER -> "U+1F4CB"

SectionOpen(cat) ==
    [tok |-> "section-open", icon |-> SectionIcon(cat), category |-> cat,
     name |-> <<>>, text |-> <<>>]
PropertyRow(cat, key, v) ==
    [tok |-> "property", icon |-> "", category |-> "",
     name |-> CleanKey(key), text |-> format_property_value(v, cat, key)]
SectionClose ==
    [tok |-> "section-close", icon |-> "", category |-> "", name |-> <<>>, text |-> <<>>]

\* section_html with its rows kept in a mapping keyed by the display key: a
\* property whose display key was already seen replaces no row and adds none.
SectionHtmlByDisplayKey(cat, properties) ==
    LET first == {i \in 1..Len(properties) :
                     \A j \in 1..(i - 1) : CleanKey(properties[j][1]) # CleanKey(properties[i][1])}
        rows == [i \in 1..Len(properties) |->
                     IF i \in first
                     THEN <<PropertyRow(cat, properties[i][1], properties[i][2])>>
                     ELSE <<>>]
        Flat[n \in 0..Len(properties)] == IF n = 0 THEN <<>> ELSE Flat[n - 1] \o rows[n]
    IN  <<SectionOpen(cat)>> \o Flat[Len(properties)] \o <<SectionClose>>

\* section_html of one category: the header, its properties in order, the end
SectionHtml(cat, properties) ==
    <<SectionOpen(cat)>>
        \o [i \in 1..Len(properties) |-> PropertyRow(cat, properties[i][1], properties[i][2])]
        \o <<SectionClose>>

\* ''.join(sections_html) of the sections of the categories of d.
RECURSIVE JoinSections(_)
JoinSections(d) ==
    IF d = <<>> THEN <<>>
    ELSE SectionHtml(d[1][1], d[1][2]) \o JoinSections(Tail(d))

\* generate_sections that renders no section for a category without properties.
RECURSIVE SectionsSkippingEmpty(_)
SectionsSkippingEmpty(d) ==
    IF d = <<>> THEN <<>>
    ELSE (IF d[1][2] = <<>> THEN <<>> ELSE SectionHtml(d[1][1], d[1][2]))
             \o SectionsSkippingEmpty(Tail(d))

generate_sections(d) == JoinSections(d)

(***************************************************************************)
(* generate_html_template and convert_json_to_html.                        *)
(*                                                                         *)
(* What is at the source path is missing, not decodable as JSON, or a JSON *)
(* document.  A document has a shape: "record" (a mapping of mappings, its *)
(* content in rec), "list" (a JSON array), "number" (a JSON number) or     *)
(* "flat" (a mapping whose category "Network" holds a number).             *)
(***************************************************************************)
NoSource == [kind |-> "none", shape |-> "", rec |-> <<>>]
MissingSource == [kind |-> "missing", shape |-> "", rec |-> <<>>]
UndecodableSource == [kind |-> "undecodable", shape |-> "", rec |-> <<>>]
JsonSource(shape, rec) == [kind |-> "json", shape |-> shape, rec |-> rec]

UnknownComputer == <<"U", "n", "k", "n", "o", "w", "n", " ", "C", "o", "m", "p", "u", "t", "e", "r">>

NoHtml == [title |-> <<>>, summary |-> <<>>, sections |-> <<>>]

\* computer_name: data['System']['ComputerName'] when the record has it
ComputerNameOf(d) ==
    IF HasKey(d, "System") /\ HasKey(Lookup(d, "System"), ComputerName)
    THEN PyStr(Lookup(Lookup(d, "System"), ComputerName))
    ELSE UnknownComputer

\* The page: the title and header with the computer name, the summary, the sections.
generate_html_template(d, computer_name) ==
    [title |-> computer_name,
     summary |-> generate_summary_section(d),
     sections |-> generate_sections(d)]

\* 'System' in data raises TypeError on a number.
NameLookupRaises(src) == src.shape = "number"

\* data.items() and properties.items() raise AttributeError on what is no mapping.
RenderRaises(src) == src.shape # "record"

(***************************************************************************)
(* Inputs of the model.                                                    *)
(***************************************************************************)
ValueAlphabet == {"&", "<", ">", "a"}
ExampleRaw == <<"A", " ", "&", " ", "B", " ", "<", " ", "C">>
ExampleEscaped == <<"A", " ", "&", "a", "m", "p", ";", " ", "B", " ", "&", "l", "t", ";", " ", "C">>

FormatValues ==
    {StrVal(s) : s \in StringsUpTo(ValueAlphabet, MaxValueLen) \cup {RunningText, StoppedText, ExampleRaw}}
    \cup {IntVal(n) : n \in 0..MaxInt} \cup {BoolVal(b) : b \in BOOLEAN}

FormatCategories == {"Services", "services", "System"}

KeyAlphabet == {"a", "1", "6", "_", " "}
Keys == StringsUpTo(KeyAlphabet, MaxKeyLen)

NoValue == StrVal(<<>>)

Processor2 == <<"P", "r", "o", "c", "e", "s", "s", "o", "r", "2">>
Spooler == <<"S", "p", "o", "o", "l", "e", "r">>
Fax == <<"F", "a", "x">>
TextPC1 == <<"P", "C", "1">>
TextW10 == <<"W", "1", "0">>
Text8GB == <<"8", "G", "B">>
TextCpu == <<"i", "7", " ", "(", "3", "G", "H", "z", ")">>
TextI5 == <<"i", "5">>

MaxCats == 2
MaxProps == 2

CategoryNames == {"System", "Memory", "CPU", "Services", "services"}

\* The <<key, value>> pairs a category of the model's records draws from.
PropertyUniverse(cat) ==
    CASE cat = "System" -> {<<ComputerName, StrVal(TextPC1)>>, <<OSVersion, StrVal(TextW10)>>}
      [] cat = "Memory" -> {<<TotalRAM, StrVal(Text8GB)>>, <<TotalRAM, IntVal(8)>>}
      [] cat = "CPU" -> {<<Processor1, StrVal(TextCpu)>>, <<Processor1, IntVal(3)>>,
                         <<Processor2, StrVal(TextI5)>>}
      [] cat = "Services" -> {<<Spooler, StrVal(RunningText)>>, <<Spooler, StrVal(StoppedText)>>,
                              <<Fax, StrVal(RunningText)>>, <<Fax, StrVal(StoppedText)>>}
      [] OTHER -> {<<Spooler, StrVal(RunningText)>>}

\* The property mappings of a category: at most MaxProps properties, distinct keys.
Mappings(cat) ==
    {m \in UNION {[1..k -> PropertyUniverse(cat)] : k \in 0..MaxProps} :
        \A i, j \in 1..Len(m) : m[i][1] = m[j][1] => i = j}

\* The records whose categories are those of order, in that order.
RECURSIVE RecordsOver(_)
RecordsOver(order) ==
    IF order = <<>> THEN {<<>>}
    ELSE {<<<<Head(order), m>>>> \o r : m \in Mappings(Head(order)), r \in RecordsOver(Tail(order))}

\* The well-formed records of the model: at most MaxCats distinct categories.
Records ==
    UNION {RecordsOver(order) :
        order \in {o \in UNION {[1..k -> CategoryNames] : k \in 0..MaxCats} :
                      \A i, j \in 1..Len(o) : o[i] = o[j] => i = j}}

FormatIdle == category = "" /\ value = NoValue /\ formatted = <<>>
KeyIdle == rawKey = <<>> /\ cleanKey = <<>> /\ cleanKey2 = <<>>
RenderIdle == data = <<>> /\ summary = <<>> /\ sections = <<>>
MainIdle ==
    /\ mode = "" /\ source = NoSource /\ dest = "old" /\ sourceReads = 0 /\ destOpens = 0
    /\ html = NoHtml /\ result = "unset" /\ exitCode = -1

(***************************************************************************)
(* SpecFormat: format_property_value applied to one value of a category.   *)
(***************************************************************************)
InitFormat ==
    /\ pc = "format"
    /\ category \in FormatCategories
    /\ value \in FormatValues
    /\ formatted = <<>>
    /\ KeyIdle /\ RenderIdle /\ MainIdle

FormatPropertyValue ==
    /\ pc = "format"
    /\ formatted' = format_property_value(value, category, <<>>)
    /\ pc' = "formatted"
    /\ UNCHANGED <<category, value, keyVars, renderVars, mainVars>>

NextFormat == FormatPropertyValue

SpecFormat == InitFormat /\ [][NextFormat]_vars

(***************************************************************************)
(* SpecKey: the display key derived from a raw key, and derived again from *)
(* the display key.                                                        *)
(***************************************************************************)
InitKey ==
    /\ pc = "key"
    /\ rawKey \in Keys
    /\ cleanKey = <<>> /\ cleanKey2 = <<>>
    /\ FormatIdle /\ RenderIdle /\ MainIdle

DeriveKey ==
    /\ pc = "key"
    /\ cleanKey' = CleanKey(rawKey)
    /\ pc' = "derived"
    /\ UNCHANGED <<rawKey, cleanKey2, formatVars, renderVars, mainVars>>

DeriveKeyAgain ==
    /\ pc = "derived"
    /\ cleanKey2' = CleanKey(cleanKey)
    /\ pc' = "derived2"
    /\ UNCHANGED <<rawKey, cleanKey, formatVars, renderVars, mainVars>>

NextKey == DeriveKey \/ DeriveKeyAgain

SpecKey == InitKey /\ [][NextKey]_vars

(***************************************************************************)
(* SpecRender: the two renderers generate_html_template calls on a record, *)
(* in the order of the template: the summary, then the sections.           *)
(***************************************************************************)
InitRender ==
    /\ pc = "loaded"
    /\ data \in Records
    /\ summary = <<>> /\ sections = <<>>
    /\ FormatIdle /\ KeyIdle /\ MainIdle

GenerateSummarySection ==
    /\ pc = "loaded"
    /\ summary' = generate_summary_section(data)
    /\ pc' = "summarised"
    /\ UNCHANGED <<data, sections, formatVars, keyVars, mainVars>>

GenerateSections ==
    /\ pc = "summarised"
    /\ sections' = generate_sections(data)
    /\ pc' = "rendered"
    /\ UNCHANGED <<data, summary, formatVars, keyVars, mainVars>>

NextRender == GenerateSummarySection \/ GenerateSections

SpecRender == InitRender /\ [][NextRender]_vars

(***************************************************************************)
(* Spec: one run of the program.  main in command-line or interactive      *)
(* mode, or convert_json_to_html called directly, on one source file.  The *)
(* steps of convert_json_to_html are separate actions; an exception raised *)
(* by a step is handled in the same action (every handler prints and       *)
(* returns None).  The choice of the output path has no effect on the      *)
(* steps and is not modelled.                                              *)
(***************************************************************************)
\* The records a source file of the model holds: at most one category.
SourceRecords == {<<>>} \cup UNION {RecordsOver(<<c>>) : c \in CategoryNames}

Sources ==
    {MissingSource, UndecodableSource}
    \cup {JsonSource("record", r) : r \in SourceRecords}
    \cup {JsonSource(s, <<>>) : s \in {"list", "number", "flat"}}

Init ==
    /\ mode \in {"cli", "interactive", "call"}
    /\ pc = IF mode = "call" THEN "convert_read" ELSE "main"
    /\ source \in Sources
    /\ dest = "old" /\ sourceReads = 0 /\ destOpens = 0
    /\ html = NoHtml /\ result = "unset" /\ exitCode = -1
    /\ FormatIdle /\ KeyIdle /\ RenderIdle

\* sys.exit(code), or the interpreter ending on an uncaught exception (status 1)
Exit(code) == pc' = "exited" /\ exitCode' = code

\* main, to the call of convert_json_to_html: the command-line mode checks that
\* the source exists; the interactive mode goes on to its prompts.
MainStart ==
    /\ pc = "main"
    /\ IF mode = "cli"
       THEN IF source.kind = "missing" THEN Exit(1)
            ELSE pc' = "convert_read" /\ UNCHANGED exitCode
       ELSE pc' = "get_input" /\ UNCHANGED exitCode
    /\ UNCHANGED <<mode, source, dest, sourceReads, destOpens, html, result>>
    /\ UNCHANGED <<formatVars, keyVars, renderVars>>

\* get_input_file: input() until the answer names an existing file.  Ctrl-C is
\* caught by main (exit 0); the end of the input is not (EOFError, status 1).
GetInputFile ==
    /\ pc = "get_input"
    /\ \E answer \in {"path", "other", "interrupt", "eof"} :
          CASE answer = "path" ->
                   /\ source.kind # "missing"
                   /\ pc' = "get_output" /\ UNCHANGED exitCode
            [] answer = "other" -> UNCHANGED <<pc, exitCode>>
            [] answer = "interrupt" -> Exit(0)
            [] answer = "eof" -> Exit(1)
    /\ UNCHANGED <<mode, source, dest, sourceReads, destOpens, html, result>>
    /\ UNCHANGED <<formatVars, keyVars, renderVars>>

\* get_output_file: one input(), under the same try of main.
GetOutputFile ==
    /\ pc = "get_output"
    /\ \E answer \in {"path", "interrupt", "eof"} :
          CASE answer = "path" -> pc' = "convert_read" /\ UNCHANGED exitCode
            [] answer = "interrupt" -> Exit(0)
            [] answer = "eof" -> Exit(1)
    /\ UNCHANGED <<mode, source, dest, sourceReads, destOpens, html, result>>
    /\ UNCHANGED <<formatVars, keyVars, renderVars>>

\* An exception in convert_json_to_html: its handler prints and returns None.
ReturnNone == pc' = "converted" /\ result' = "None"

\* with open(json_file_path) as f: data = json.load(f)
ConvertRead ==
    /\ pc = "convert_read"
    /\ sourceReads' = sourceReads + 1
    /\ IF source.kind = "json"
       THEN /\ data' = source.rec
            /\ pc' = "convert_name"
            /\ UNCHANGED result
       ELSE ReturnNone /\ UNCHANGED data
    /\ UNCHANGED <<mode, source, dest, destOpens, html, exitCode, summary, sections>>
    /\ UNCHANGED <<formatVars, keyVars>>

\* The computer name is looked up in the data.
ConvertName ==
    /\ pc = "convert_name"
    /\ IF NameLookupRaises(source) THEN ReturnNone
       ELSE pc' = "convert_render" /\ UNCHANGED result
    /\ UNCHANGED <<mode, source, dest, sourceReads, destOpens, html, exitCode>>
    /\ UNCHANGED <<formatVars, keyVars, renderVars>>

\* convert_json_to_html with the destination opened before the page is rendered.
ConvertRenderInsideOpen ==
    /\ pc = "convert_render"
    /\ destOpens' = destOpens + 1
    /\ dest' = "truncated"
    /\ IF RenderRaises(source)
       THEN ReturnNone /\ UNCHANGED <<html, summary, sections>>
       ELSE /\ summary' = generate_summary_section(data)
            /\ sections' = generate_sections(data)
            /\ html' = generate_html_template(data, ComputerNameOf(data))
            /\ pc' = "convert_write"
            /\ UNCHANGED result
    /\ UNCHANGED <<mode, source, sourceReads, exitCode, data>>
    /\ UNCHANGED <<formatVars, keyVars>>

\* html_content = generate_html_template(data, computer_name, timestamp)
ConvertRender ==
    /\ pc = "convert_render"
    /\ IF RenderRaises(source)
       THEN ReturnNone /\ UNCHANGED <<html, summary, sections>>
       ELSE /\ summary' = generate_summary_section(data)
            /\ sections' = generate_sections(data)
            /\ html' = generate_html_template(data, ComputerNameOf(data))
            /\ pc' = "convert_open"
            /\ UNCHANGED result
    /\ UNCHANGED <<mode, source, dest, sourceReads, destOpens, exitCode, data>>
    /\ UNCHANGED <<formatVars, keyVars>>

\* with open(output_file_path, 'w'): the open creates or truncates the file, or fails.
ConvertOpen ==
    /\ pc = "convert_open"
    /\ destOpens' = destOpens + 1
    /\ \E opened \in BOOLEAN :
          IF opened
          THEN dest' = "truncated" /\ pc' = "convert_write" /\ UNCHANGED result
          ELSE ReturnNone /\ UNCHANGED dest
    /\ UNCHANGED <<mode, source, sourceReads, html, exitCode>>
    /\ UNCHANGED <<formatVars, keyVars, renderVars>>

\* f.write(html_content) and the close of the file, then return str(output_file_path);
\* a write error leaves the truncated file.
ConvertWrite ==
    /\ pc = "convert_write"
    /\ \E written \in BOOLEAN :
          IF written
          THEN dest' = "written" /\ result' = "path" /\ pc' = "converted"
          ELSE ReturnNone /\ UNCHANGED dest
    /\ UNCHANGED <<mode, source, sourceReads, destOpens, html, exitCode>>
    /\ UNCHANGED <<formatVars, keyVars, renderVars>>

\* main after the conversion: if result is None, sys.exit(1).  Else the prompt
\* to open the page: any answer and Ctrl-C lead to sys.exit(0) (a failing
\* os.startfile is caught); the end of the input raises EOFError, which nothing
\* catches.
MainFinish ==
    /\ pc = "converted" /\ mode # "call"
    /\ IF result = "None" THEN Exit(1)
       ELSE \E answer \in {"yes", "no", "interrupt", "eof"} :
               IF answer = "eof" THEN Exit(1) ELSE Exit(0)
    /\ UNCHANGED <<mode, source, dest, sourceReads, destOpens, html, result>>
    /\ UNCHANGED <<formatVars, keyVars, renderVars>>

Next ==
    \/ MainStart
    \/ GetInputFile
    \/ GetOutputFile
    \/ ConvertRead
    \/ ConvertName
    \/ ConvertRender
    \/ ConvertOpen
    \/ ConvertWrite
    \/ MainFinish

Spec == Init /\ [][Next]_vars

(***************************************************************************)
(* Properties of format_property_value (SpecFormat).                       *)
(***************************************************************************)
Contains(sub, s) ==
    \E i \in 1..(Len(s) - Len(sub) + 1) : SubSeq(s, i, i + Len(sub) - 1) = sub

PositiveStyle(out, v) == out = RunningOpen \o PyStr(v) \o SpanClose
NegativeStyle(out, v) == out = StoppedOpen \o PyStr(v) \o SpanClose

\* C2: the value is rendered with the positive badge (status-running, checkmark)
\* exactly when the category is exactly "Services" and the value is the string
\* "Running"; every other value of "Services" gets the negative badge
\* (status-stopped, cross); in every other category, case variants of "Services"
\* included, the output holds no badge of either style.
C2_BadgeOnlyInServices ==
    pc = "formatted" =>
        /\ PositiveStyle(formatted, value)
              <=> (category = "Services" /\ value = StrVal(RunningText))
        /\ (category = "Services" /\ value # StrVal(RunningText))
              => NegativeStyle(formatted, value)
        /\ category # "Services"
              => ~Contains(RunningOpen, formatted) /\ ~Contains(StoppedOpen, formatted)

\* "Running" in the category "services" was formatted, and has no badge.
C2_Witness ==
    /\ pc = "formatted"
    /\ category = "services"
    /\ value = StrVal(RunningText)
    /\ formatted = RunningText

\* What one character becomes when it is escaped once.
EntityOf(c) ==
    CASE c = "&" -> AmpEntity
      [] c = "<" -> LtEntity
      [] c = ">" -> GtEntity
      [] OTHER -> <<c>>

RECURSIVE EscapedOnce(_)
EscapedOnce(s) ==
    IF s = <<>> THEN <<>> ELSE EntityOf(Head(s)) \o EscapedOnce(Tail(s))

\* C3: outside "Services" a textual value is escaped exactly once: every & of
\* the input becomes &amp;, every < becomes &lt;, every > becomes &gt;, the &
\* of an entity is not escaped again, `A & B < C` renders as
\* `A &amp; B &lt; C`, and the result holds no raw < or >.
C3_EscapedExactlyOnce ==
    (pc = "formatted" /\ category # "Services" /\ value.tag = "str") =>
        /\ formatted = EscapedOnce(value.s)
        /\ \A i \in 1..Len(formatted) : formatted[i] \notin {"<", ">"}
        /\ value.s = ExampleRaw => formatted = ExampleEscaped

\* `A & B < C` was formatted in the category "System".
C3_Witness ==
    /\ pc = "formatted"
    /\ category = "System"
    /\ value = StrVal(ExampleRaw)
    /\ formatted = ExampleEscaped

(***************************************************************************)
(* Properties of the display key (SpecKey).                                *)
(***************************************************************************)
AllDigits == {"0", "1", "2", "3", "4", "5", "6", "7", "8", "9"}

\* key without the digits and underscores that end it.
RECURSIVE WithoutTrailingDigits(_)
WithoutTrailingDigits(key) ==
    IF key # <<>> /\ key[Len(key)] \in AllDigits \cup {"_"}
    THEN WithoutTrailingDigits(SubSeq(key, 1, Len(key) - 1))
    ELSE key

\* C9 as stated: the display key is the raw key with its trailing digits (any
\* of 0-9) and underscores stripped, the characters not at the end kept.  Stated
\* for the keys without whitespace, where no trimming takes part.
C9_TrailingDigitsStripped ==
    (pc \in {"derived", "derived2"} /\ \A i \in 1..Len(rawKey) : rawKey[i] \notin Whitespace)
        => cleanKey = WithoutTrailingDigits(rawKey)

\* t is s without its leading and trailing whitespace.
IsTrimOf(t, s) ==
    \E lo \in 1..(Len(s) + 1), hi \in 0..Len(s) :
        /\ t = SubSeq(s, lo, hi)
        /\ \A i \in 1..Len(s) : (i < lo \/ i > hi) => s[i] \in Whitespace
        /\ t # <<>> => (t[1] \notin Whitespace /\ t[Len(t)] \notin Whitespace)

\* C9 as amended: the display key is the raw key with every 1, 2, 3, 4 and 5
\* removed wherever it stands, every underscore replaced by a space, and the
\* surrounding whitespace trimmed; 0 and 6-9 are kept, at the end of the key too.
C9_DigitsOneToFiveRemoved ==
    pc \in {"derived", "derived2"} =>
        LET kept == SelectSeq(rawKey, LAMBDA c : c \notin {"1", "2", "3", "4", "5"})
            spaced == [i \in 1..Len(kept) |-> IF kept[i] = "_" THEN " " ELSE kept[i]]
        IN  IsTrimOf(cleanKey, spaced)

\* The key "1a6" was derived: its leading 1 is gone and its trailing 6 is kept.
C9_Witness ==
    /\ pc = "derived"
    /\ rawKey = <<"1", "a", "6">>
    /\ cleanKey = <<"a", "6">>

\* C10: for a key with no digit and no underscore, deriving the display key of
\* the display key gives the display key again: derive(derive(k)) = derive(k).
C10_DeriveIdempotent ==
    (pc = "derived2" /\ \A i \in 1..Len(rawKey) : rawKey[i] \notin AllDigits \cup {"_"})
        => cleanKey2 = cleanKey

\* The key "  a" (no digit, no underscore, whitespace to trim) was derived twice.
C10_Witness ==
    /\ pc = "derived2"
    /\ rawKey = <<" ", " ", "a">>
    /\ cleanKey = <<"a">>
    /\ cleanKey2 = <<"a">>

(***************************************************************************)
(* Properties of the renderers (SpecRender).                               *)
(***************************************************************************)
SectionOpens == SelectSeq(sections, LAMBDA e : e.tok = "section-open")
SectionCloses == SelectSeq(sections, LAMBDA e : e.tok = "section-close")

\* C1: generate_sections renders exactly one section block per category of the
\* record, in the order of the record's categories: none for the empty record,
\* and one for a category whose property mapping is empty.
C1_OneSectionPerCategory ==
    pc = "rendered" =>
        /\ Len(SectionOpens) = Len(data)
        /\ Len(SectionCloses) = Len(data)
        /\ \A i \in 1..Len(data) : SectionOpens[i].category = data[i][1]
        /\ data = <<>> => sections = <<>>

\* A record of two categories, the first without properties, has two sections.
C1_Witness ==
    /\ pc = "rendered"
    /\ Len(data) = 2
    /\ data[1][2] = <<>>
    /\ Len(SectionOpens) = 2
    /\ SectionOpens[1].category = data[1][1]

HasPath(d, cat, key) == HasKey(d, cat) /\ HasKey(Lookup(d, cat), key)

NoProbedPath(d) ==
    /\ ~HasPath(d, "System", ComputerName)
    /\ ~HasPath(d, "System", OSVersion)
    /\ ~HasPath(d, "Memory", TotalRAM)
    /\ ~HasPath(d, "CPU", Processor1)
    /\ ~HasKey(d, "Services")

\* C6: for a record with none of the five probed paths (System.ComputerName,
\* System.OSVersion, Memory.TotalRAM, CPU.Processor1, a category Services), the
\* empty record included, generate_summary_section returns the empty string: no
\* summary block.
C6_NoPathNoSummary ==
    (pc \in {"summarised", "rendered"} /\ NoProbedPath(data)) => summary = <<>>

\* A record with categories and properties, none of them probed, was summarised.
C6_Witness ==
    /\ pc = "summarised"
    /\ Len(data) = 2
    /\ HasKey(data, "services") /\ Lookup(data, "services") # <<>>
    /\ HasPath(data, "CPU", Processor2)
    /\ NoProbedPath(data)
    /\ summary = <<>>

SummaryLabels ==
    LET items == SelectSeq(summary, LAMBDA e : e.tok = "summary-item")
    IN  [i \in 1..Len(items) |-> items[i].label]

\* The labels of the probes whose own path is in the record, in the fixed order.
ExpectedLabels(d) ==
    (IF HasPath(d, "System", ComputerName) THEN <<"Computer">> ELSE <<>>)
    \o (IF HasPath(d, "System", OSVersion) THEN <<"Operating System">> ELSE <<>>)
    \o (IF HasPath(d, "Memory", TotalRAM) THEN <<"Total RAM">> ELSE <<>>)
    \o (IF HasPath(d, "CPU", Processor1) THEN <<"Processor">> ELSE <<>>)
    \o (IF HasKey(d, "Services") THEN <<"Services Status">> ELSE <<>>)

\* C7: the summary items are exactly those of the five probes whose own path is
\* in the record, in the fixed order; a probe's item depends on no other probe's
\* path (the record's values being strings, numbers or booleans).
C7_ProbesIndependent ==
    pc \in {"summarised", "rendered"} => SummaryLabels = ExpectedLabels(data)

\* C8: when the record has a category named exactly "Services", the summary has
\* the item "<running>/<total> Running", running the number of its properties
\* whose value is the string "Running" and total the number of its properties,
\* so that 0 <= running <= total.
C8_ServicesCounted ==
    (pc \in {"summarised", "rendered"} /\ HasKey(data, "Services")) =>
        LET services == Lookup(data, "Services")
            running == Cardinality({i \in 1..Len(services) : services[i][2] = StrVal(RunningText)})
            total == Len(services)
        IN  /\ 0 <= running /\ running <= total
            /\ \E i \in 1..Len(summary) :
                  /\ summary[i].tok = "summary-item"
                  /\ summary[i].label = "Services Status"
                  /\ summary[i].text = IntText(running) \o <<"/">> \o IntText(total)
                                           \o <<" ", "R", "u", "n", "n", "i", "n", "g">>

(***************************************************************************)
(* Properties of convert_json_to_html and main (Spec).                     *)
(***************************************************************************)
\* C4: main exits with 0 when the conversion succeeded (the source was loaded and
\* the document written) and with a non-zero status when loading the source or
\* writing the destination failed, whatever happens at the prompt to open the
\* page (any answer, an interrupt, the end of the input).
C4_ExitCodeTellsOutcome ==
    (pc = "exited" /\ mode \in {"cli", "interactive"}) =>
        /\ (result = "path" /\ dest = "written") => exitCode = 0
        /\ (result = "None" \/ (mode = "cli" /\ source.kind = "missing")) => exitCode # 0

\* The source cannot be converted: missing, undecodable, or its rendering raises.
SourceFails == source.kind \in {"missing", "undecodable"} \/ RenderRaises(source)

\* C5: the destination is opened for writing at most once, and only after the
\* source was read and decoded and the whole page rendered; when the source is
\* missing or malformed or its rendering raises, the destination is left
\* untouched, nothing is tried again, and the function returns None.
C5_DestinationOpenedLast ==
    /\ destOpens <= 1
    /\ sourceReads <= 1
    /\ destOpens = 1 =>
          /\ sourceReads = 1 /\ source.kind = "json" /\ ~RenderRaises(source)
          /\ html = generate_html_template(source.rec, ComputerNameOf(source.rec))
    /\ dest # "old" => destOpens = 1
    /\ (pc \in {"converted", "exited"} /\ sourceReads = 1 /\ SourceFails) =>
          /\ dest = "old" /\ destOpens = 0
          /\ result = "None"

\* A JSON document that is no record (a mapping with a number for a category) was
\* read and its rendering raised: None is returned, the destination untouched.
C5_Witness ==
    /\ pc = "converted"
    /\ source = JsonSource("flat", <<>>)
    /\ sourceReads = 1
    /\ result = "None"
    /\ dest = "old" /\ destOpens = 0

(***************************************************************************)
(* Properties of the rows of a section (SpecRender).                       *)
(***************************************************************************)
\* Where the i-th element of kind tok stands in sections.
PositionOf(tok, i) ==
    CHOOSE k \in 1..Len(sections) :
        /\ sections[k].tok = tok
        /\ Cardinality({m \in 1..k : sections[m].tok = tok}) = i

\* The elements between the opening and the closing of the i-th section.
RowsOfSection(i) ==
    SubSeq(sections, PositionOf("section-open", i) + 1, PositionOf("section-close", i) - 1)

\* C11: every rendered section holds exactly one property row per property of
\* its category, in the order of the category's keys (not sorted), each row with
\* the display key and the formatted value of its own property; no row is merged
\* or dropped when two raw keys (Processor1, Processor2) derive one display key.
C11_OneRowPerProperty ==
    pc = "rendered" =>
        \A i \in 1..Len(data) :
            LET properties == data[i][2]
                rows == RowsOfSection(i)
            IN  /\ Len(rows) = Len(properties)
                /\ \A j \in 1..Len(rows) :
                      /\ rows[j].tok = "property"
                      /\ rows[j].name = CleanKey(properties[j][1])
                      /\ rows[j].text = format_property_value(properties[j][2], data[i][1],
                                                              properties[j][1])

\* The category CPU with Processor2 before Processor1 was rendered: two rows, both
\* named "Processor", in the order of the keys and not in their sorted order.
C11_Witness ==
    /\ pc = "rendered"
    /\ Len(data) = 1
    /\ data[1] = <<"CPU", <<<<Processor2, StrVal(TextI5)>>, <<Processor1, StrVal(TextCpu)>>>>>>
    /\ Len(RowsOfSection(1)) = 2
    /\ RowsOfSection(1)[1].name = RowsOfSection(1)[2].name
    /\ RowsOfSection(1)[1].text = TextI5
    /\ RowsOfSection(1)[2].text = TextCpu

====
